---- MODULE Spec2Model ----
(***************************************************************************)
(* Model of server/webrtctransport.go: the WebRTCTransport of one peer     *)
(* connection.  The state is the two track registries guarded by mu, the   *)
(* WaitGroup wg, the three shared unbuffered channels, the goroutines of   *)
(* the API callers, of handleTrack and its receive pump, of the            *)
(* send-feedback pumps started by AddTrack, and of the shutdown goroutine  *)
(* started by NewWebRTCTransport.  The network engine (pion), the          *)
(* signaller and the consumers of the channels are the environment: every  *)
(* result they can hand to the transport is a nondeterministic choice.     *)
(***************************************************************************)
EXTENDS Integers, Sequences, FiniteSets, TLC

\* ---------------------------------------------------------------- bounds
\* AddTrack calls per run (each successful one creates a sender and a pump)
MaxAdds == 2
\* RemoveTrack calls per run
MaxRemoves == 1
\* WriteRTP calls per run
MaxWrites == 1
\* LocalTracks / RemoteTracks calls per run
MaxLists == 1
\* packets the engine delivers to one pump before its read fails
MaxPkts == 1
\* remote tracks the engine delivers per run
MaxTracks == 1

\* ------------------------------------------------------------ value sets
Callers == {"c1", "c2"}
Tracks == {"t1", "t2", "t3"}
SSRCs == {1001, 1002}
\* the (ssrc, id, streamId) an AddTrack call is made with
AddArgs == {<<1001, "v0", "s0">>, <<1001, "v1", "s1">>, <<1002, "v0", "s1">>}
\* packet.MarshalSize() of the packets written
Sizes == {12, 200}
Senders == 1..(MaxAdds + 1)

\* the engine delivers the remote tracks in this order
TrackOrder == [t \in Tracks |-> CASE t = "t1" -> 1 [] t = "t2" -> 2 [] OTHER -> 3]

\* What the environment does in one run: who calls the session and how often,
\* the remote tracks and packets the engine delivers, whether the session is
\* closed, whether this side is the initiator, and whether the engine's
\* transceiver enumeration can miss the new sender or receiver.
Scenarios ==
  { \* one caller, every call of the API in any order
    [callers |-> {"c1"}, add |-> MaxAdds, remove |-> MaxRemoves,
     write |-> MaxWrites, list |-> MaxLists, tracks |-> 0, pkts |-> 0,
     close |-> FALSE, initiator |-> TRUE, lost |-> FALSE],
    \* two callers adding, removing and writing concurrently
    [callers |-> Callers, add |-> MaxAdds, remove |-> MaxRemoves,
     write |-> MaxWrites, list |-> 0, tracks |-> 0, pkts |-> 0,
     close |-> FALSE, initiator |-> FALSE, lost |-> FALSE],
    \* two callers listing while tracks, local and remote, come and go
    [callers |-> Callers, add |-> MaxAdds - 1, remove |-> MaxRemoves,
     write |-> 0, list |-> MaxLists, tracks |-> MaxTracks, pkts |-> 0,
     close |-> FALSE, initiator |-> FALSE, lost |-> TRUE],
    \* a local and a remote track with their pumps, and the session closes
    [callers |-> {"c1"}, add |-> MaxAdds - 1, remove |-> 0,
     write |-> 0, list |-> 0, tracks |-> MaxTracks, pkts |-> MaxPkts,
     close |-> TRUE, initiator |-> TRUE, lost |-> FALSE],
    \* several remote tracks, listed
    [callers |-> {"c1"}, add |-> 0, remove |-> 0,
     write |-> 0, list |-> MaxLists, tracks |-> MaxTracks + 1, pkts |-> 0,
     close |-> FALSE, initiator |-> TRUE, lost |-> FALSE],
    \* one caller adds a track and writes a series of packets to it
    [callers |-> {"c1"}, add |-> MaxAdds - 1, remove |-> 0,
     write |-> MaxWrites + 2, list |-> 0, tracks |-> 0, pkts |-> 0,
     close |-> FALSE, initiator |-> FALSE, lost |-> FALSE],
    \* a local and a remote track whose pumps carry a series of packets
    [callers |-> {"c1"}, add |-> MaxAdds - 1, remove |-> 0,
     write |-> 0, list |-> 0, tracks |-> MaxTracks, pkts |-> MaxPkts + 1,
     close |-> FALSE, initiator |-> FALSE, lost |-> FALSE] }

NoProc == "none"
NIL == "nil"
NoRet == [kind |-> "none"]

\* TrackEventType, webrtctransport.go:25-28
TrackEventTypeAdd == 1
TrackEventTypeRemove == 2

VARIABLES
  scenario,         \* the run's environment (never changes)
  started,          \* calls and callbacks started so far
  localTracks,      \* p.localTracks : SSRC -> localTrackInfo
  remoteTracks,     \* p.remoteTracks : SSRC -> remoteTrackInfo
  mu,               \* p.mu : [writer, readers]
  wg,               \* p.wg counter
  closeSignal,      \* signaller.CloseChannel() is closed
  coord,            \* position of the shutdown goroutine
  rtpCh, rtcpCh, trackEventsCh,   \* "open" or "closed"
  call,             \* the API call each caller goroutine is in
  track,            \* per remote track: handleTrack and its receive pump
  fb,               \* per sender: the send-feedback pump
  engine,           \* what the transport has asked of the engine/signaller
  metrics,          \* prometheus counters
  observed,         \* per remote track: the events a consumer has received
  panicked,         \* the process died of a runtime panic (reason) or "no"
  pumpsAtClose,     \* history: the pumps wg counted when the close signal fired
  removed,          \* history, per SSRC with no AddTrack stored since: .deleted, a
                    \* RemoveTrack deleted it; .returned, one returned success
  ctor              \* NewWebRTCTransport: its position, what it has created on
                    \* the peer connection, and what it returned

vars == <<scenario, started, localTracks, remoteTracks, mu, wg, closeSignal, coord,
          rtpCh, rtcpCh, trackEventsCh, call, track, fb, engine, metrics,
          observed, panicked, pumpsAtClose, removed, ctor>>

\* ------------------------------------------------------------- helpers
\* m[k] = v on a Go map
Put(m, k, v) == [x \in (DOMAIN m) \cup {k} |-> IF x = k THEN v ELSE m[x]]

\* delete(m, k) on a Go map
Del(m, k) == [x \in (DOMAIN m) \ {k} |-> m[x]]

EmptyMap == [x \in {} |-> NIL]

\* the transceiver the engine holds for a sender / for a remote track's receiver
SenderTransceiver(s) == ToString(s)
ReceiverTransceiver(t) == t

\* what p.peerConnection.GetTransceivers() can yield for the handle tr
FoundTransceivers(tr) == IF scenario.lost THEN {tr, NIL} ELSE {tr}

\* RTPTransceiver.Mid(): empty until a negotiation has completed
Mid(tr) == IF engine.negotiated THEN tr ELSE ""

\* TrackInfo, webrtctransport.go:15-21
TrackInfo(ssrc, id, streamId, kind) ==
  [SSRC |-> ssrc, ID |-> id, StreamID |-> streamId, Kind |-> kind, Mid |-> ""]

\* sync.RWMutex
MuFree == [writer |-> NoProc, readers |-> {}]
CanLock == mu.writer = NoProc /\ mu.readers = {}
CanRLock == mu.writer = NoProc

\* the transport has been constructed and the process has not panicked
Running == panicked = "no" /\ ctor.pc = "done"

\* NewWebRTCTransport before its first statement
CtorStart ==
  [pc |-> "dataChannel", dataChannel |-> FALSE, dataTransceiver |-> FALSE,
   signaller |-> FALSE, onICE |-> FALSE, onTrack |-> FALSE,
   peerClosed |-> FALSE, transport |-> FALSE, err |-> "none"]

\* NewWebRTCTransport after 'return transport, nil'
Constructed ==
  [pc |-> "done", dataChannel |-> scenario.initiator, dataTransceiver |-> TRUE,
   signaller |-> TRUE, onICE |-> TRUE, onTrack |-> TRUE,
   peerClosed |-> FALSE, transport |-> TRUE, err |-> "nil"]

\* between calls a caller keeps the result of its last call in ret; after is
\* history: the call began after a RemoveTrack of its SSRC returned success
\* with no AddTrack of that SSRC stored since
IdleCall ==
  [op |-> "idle", pc |-> "idle", ssrc |-> 0, id |-> "", streamId |-> "",
   size |-> 0, sender |-> 0, transceiver |-> NIL, todo |-> {}, list |-> <<>>,
   ret |-> NoRet, after |-> FALSE]

\* caller c starts a call: its locals are fresh, ret still holds its last result
Begin(c, op, pc) == [IdleCall EXCEPT !.op = op, !.pc = pc, !.ret = call[c].ret]

\* the caller's goroutine returns r to its caller
Return(c, r) == [call EXCEPT ![c] = [IdleCall EXCEPT !.ret = r]]

CanStart(c) == Running /\ c \in scenario.callers /\ call[c].pc = "idle"

\* ------------------------------------------------------------ Init
Init ==
  /\ scenario \in Scenarios
  /\ started = [add |-> 0, remove |-> 0, write |-> 0, list |-> 0, tracks |-> 0]
  /\ localTracks = EmptyMap
  /\ remoteTracks = EmptyMap
  /\ mu = MuFree
  /\ wg = 0
  /\ closeSignal = FALSE
  /\ coord = "waitClose"
  /\ rtpCh = "open"
  /\ rtcpCh = "open"
  /\ trackEventsCh = "open"
  /\ call = [c \in Callers |-> IdleCall]
  /\ track = [t \in Tracks |->
                [pc |-> "none", ssrc |-> 0, transceiver |-> NIL, reads |-> 0,
                 ended |-> "", received |-> <<>>]]
  /\ fb = [s \in Senders |-> [pc |-> "none", pending |-> 0, reads |-> 0,
                              batch |-> 0, received |-> <<>>]]
  /\ engine = [created |-> 0, senders |-> {}, negotiate |-> 0,
               transceiverRequests |-> 0, negotiated |-> FALSE]
  /\ metrics = [rtpPacketsSent |-> 0, rtpPacketsSentBytes |-> 0,
                rtpPacketsReceived |-> 0, rtcpPacketsReceived |-> 0,
                tracksTotal |-> 0, tracksActive |-> 0, returnedBytes |-> 0]
  /\ observed = [t \in Tracks |-> <<>>]
  /\ panicked = "no"
  /\ pumpsAtClose = {}
  /\ removed = [deleted |-> {}, returned |-> {}]
  /\ ctor = Constructed

\* ------------------------------------------------- NewWebRTCTransport
\* before the constructor runs there is no transport: no maps, no channels,
\* no shutdown goroutine
CtorInit ==
  /\ scenario \in Scenarios
  /\ started = [add |-> 0, remove |-> 0, write |-> 0, list |-> 0, tracks |-> 0]
  /\ localTracks = NIL
  /\ remoteTracks = NIL
  /\ mu = MuFree
  /\ wg = 0
  /\ closeSignal = FALSE
  /\ coord = "none"
  /\ rtpCh = NIL
  /\ rtcpCh = NIL
  /\ trackEventsCh = NIL
  /\ call = [c \in Callers |-> IdleCall]
  /\ track = [t \in Tracks |->
                [pc |-> "none", ssrc |-> 0, transceiver |-> NIL, reads |-> 0,
                 ended |-> "", received |-> <<>>]]
  /\ fb = [s \in Senders |-> [pc |-> "none", pending |-> 0, reads |-> 0,
                              batch |-> 0, received |-> <<>>]]
  /\ engine = [created |-> 0, senders |-> {}, negotiate |-> 0,
               transceiverRequests |-> 0, negotiated |-> FALSE]
  /\ metrics = [rtpPacketsSent |-> 0, rtpPacketsSentBytes |-> 0,
                rtpPacketsReceived |-> 0, rtcpPacketsReceived |-> 0,
                tracksTotal |-> 0, tracksActive |-> 0, returnedBytes |-> 0]
  /\ observed = [t \in Tracks |-> <<>>]
  /\ panicked = "no"
  /\ pumpsAtClose = {}
  /\ removed = [deleted |-> {}, returned |-> {}]
  /\ ctor = CtorStart

\* closePeer, webrtctransport.go:215-226: peerConnection.Close() is called and
\* the reason, with Close's own error if any, is the error returned
ClosePeer(c, reason) ==
  [c EXCEPT !.pc = "failed", !.peerClosed = TRUE, !.err = reason]

\* webrtctransport.go:233-240: the initiator creates the data channel first
CtorDataChannel ==
  /\ ctor.pc = "dataChannel"
  /\ IF scenario.initiator
       THEN \E res \in {"ok", "error"} :
              ctor' = IF res = "ok"
                        THEN [ctor EXCEPT !.pc = "signaller", !.dataChannel = TRUE]
                        ELSE ClosePeer(ctor, "create data channel")
       ELSE ctor' = [ctor EXCEPT !.pc = "signaller"]
  /\ UNCHANGED <<scenario, started, localTracks, remoteTracks, mu, wg, closeSignal,
                 coord, rtpCh, rtcpCh, trackEventsCh, call, track, fb, engine,
                 metrics, observed, panicked, pumpsAtClose, removed>>

\* (mutant) the track handler is registered beside the ICE handler, before the
\* signaller's error is looked at
CtorSignallerHandlersFirst ==
  /\ ctor.pc = "signaller"
  /\ \E res \in {"ok", "error"} :
       LET c == [ctor EXCEPT !.dataTransceiver = TRUE, !.onICE = TRUE,
                             !.onTrack = TRUE] IN
       ctor' = IF res = "ok"
                 THEN [c EXCEPT !.pc = "transport", !.signaller = TRUE]
                 ELSE ClosePeer(c, "initialize signaller")
  /\ UNCHANGED <<scenario, started, localTracks, remoteTracks, mu, wg, closeSignal,
                 coord, rtpCh, rtcpCh, trackEventsCh, call, track, fb, engine,
                 metrics, observed, panicked, pumpsAtClose, removed>>

\* webrtctransport.go:242-260: NewDataTransceiver, NewSignaller, the ICE
\* gathering handler is registered, and only then the signaller's error is
\* looked at
CtorSignaller ==
  /\ ctor.pc = "signaller"
  /\ \E res \in {"ok", "error"} :
       LET c == [ctor EXCEPT !.dataTransceiver = TRUE, !.onICE = TRUE] IN
       ctor' = IF res = "ok"
                 THEN [c EXCEPT !.pc = "transport", !.signaller = TRUE]
                 ELSE ClosePeer(c, "initialize signaller")
  /\ UNCHANGED <<scenario, started, localTracks, remoteTracks, mu, wg, closeSignal,
                 coord, rtpCh, rtcpCh, trackEventsCh, call, track, fb, engine,
                 metrics, observed, panicked, pumpsAtClose, removed>>

\* webrtctransport.go:262-282: the transport with its channels and maps is
\* made and handleTrack is registered as the track handler
CtorTransport ==
  /\ ctor.pc = "transport"
  /\ trackEventsCh' = "open"
  /\ rtpCh' = "open"
  /\ rtcpCh' = "open"
  /\ localTracks' = EmptyMap
  /\ remoteTracks' = EmptyMap
  /\ ctor' = [ctor EXCEPT !.pc = "go", !.onTrack = TRUE]
  /\ UNCHANGED <<scenario, started, mu, wg, closeSignal, coord, call, track, fb,
                 engine, metrics, observed, panicked, pumpsAtClose, removed>>

\* webrtctransport.go:284-294: the shutdown goroutine is started and the
\* transport is returned
CtorReturn ==
  /\ ctor.pc = "go"
  /\ coord' = "waitClose"
  /\ ctor' = [ctor EXCEPT !.pc = "done", !.transport = TRUE, !.err = "nil"]
  /\ UNCHANGED <<scenario, started, localTracks, remoteTracks, mu, wg, closeSignal,
                 rtpCh, rtcpCh, trackEventsCh, call, track, fb, engine, metrics,
                 observed, panicked, pumpsAtClose, removed>>

\* ---------------------------------------------------------- AddTrack
\* the signalling AddTrack triggers, webrtctransport.go:394-398
Signal(e) ==
  IF scenario.initiator
    THEN [e EXCEPT !.negotiate = @ + 1]
    ELSE [e EXCEPT !.transceiverRequests = @ + 1]

\* (mutant) wg.Add(1) and the pump come before the check of AddTrack's error
AddTrackStartPumpFirst(c) ==
  /\ CanStart(c)
  /\ started.add < scenario.add
  /\ started' = [started EXCEPT !.add = @ + 1]
  /\ \E a \in AddArgs, res \in {"ok", "new track", "add track"} :
       LET s == engine.created + 1 IN
       CASE res = "new track" ->
              /\ call' = Return(c, [kind |-> "AddTrack", err |-> res, ssrc |-> a[1],
                                    id |-> a[2], streamId |-> a[3]])
              /\ UNCHANGED <<engine, wg, fb>>
         [] res = "add track" ->
              /\ call' = Return(c, [kind |-> "AddTrack", err |-> res, ssrc |-> a[1],
                                    id |-> a[2], streamId |-> a[3]])
              /\ engine' = [engine EXCEPT !.created = s]
              /\ wg' = wg + 1
              /\ fb' = [fb EXCEPT ![s].pc = "read"]
         [] OTHER ->
              /\ engine' = Signal([engine EXCEPT !.created = s,
                                                 !.senders = @ \cup {s}])
              /\ wg' = wg + 1
              /\ fb' = [fb EXCEPT ![s].pc = "read"]
              /\ \E tr \in FoundTransceivers(SenderTransceiver(s)) :
                   call' = [call EXCEPT ![c] =
                      [Begin(c, "AddTrack", "lock") EXCEPT
                         !.ssrc = a[1], !.id = a[2], !.streamId = a[3],
                         !.sender = s, !.transceiver = tr]]
  /\ UNCHANGED <<scenario, localTracks, remoteTracks, mu, closeSignal, coord,
                 rtpCh, rtcpCh, trackEventsCh, track, metrics, observed,
                 panicked, pumpsAtClose, removed, ctor>>

\* webrtctransport.go:384-427: create the track and add it as a sender (either
\* can fail: return the error); signal; wg.Add(1) and start the send-feedback
\* pump; look for the sender's transceiver
AddTrackStart(c) ==
  /\ CanStart(c)
  /\ started.add < scenario.add
  /\ started' = [started EXCEPT !.add = @ + 1]
  /\ \E a \in AddArgs, res \in {"ok", "new track", "add track"} :
       IF res # "ok"
         THEN /\ call' = Return(c, [kind |-> "AddTrack", err |-> res, ssrc |-> a[1],
                                    id |-> a[2], streamId |-> a[3]])
              /\ UNCHANGED <<engine, wg, fb>>
         ELSE LET s == engine.created + 1 IN
              /\ engine' = Signal([engine EXCEPT !.created = s,
                                                 !.senders = @ \cup {s}])
              /\ wg' = wg + 1
              /\ fb' = [fb EXCEPT ![s].pc = "read"]
              /\ \E tr \in FoundTransceivers(SenderTransceiver(s)) :
                   call' = [call EXCEPT ![c] =
                      [Begin(c, "AddTrack", "lock") EXCEPT
                         !.ssrc = a[1], !.id = a[2], !.streamId = a[3],
                         !.sender = s, !.transceiver = tr]]
  /\ UNCHANGED <<scenario, localTracks, remoteTracks, mu, closeSignal, coord,
                 rtpCh, rtcpCh, trackEventsCh, track, metrics, observed,
                 panicked, pumpsAtClose, removed, ctor>>

\* webrtctransport.go:437
AddTrackLock(c) ==
  /\ Running
  /\ call[c].op = "AddTrack"
  /\ call[c].pc = "lock"
  /\ CanLock
  /\ mu' = [mu EXCEPT !.writer = c]
  /\ call' = [call EXCEPT ![c].pc = "store"]
  /\ UNCHANGED <<scenario, started, localTracks, remoteTracks, wg, closeSignal,
                 coord, rtpCh, rtcpCh, trackEventsCh, track, fb, engine, metrics,
                 observed, panicked, pumpsAtClose, removed, ctor>>

\* (mutant) the track's id and stream id change places
LocalTrackInfoSwapped(ssrc, id, streamId, tr, sender) ==
  [trackInfo |-> TrackInfo(ssrc, streamId, id, "video"),
   transceiver |-> tr, sender |-> sender, track |-> sender]

\* localTrackInfo, webrtctransport.go:297-302, as built at 429-438
LocalTrackInfo(ssrc, id, streamId, tr, sender) ==
  [trackInfo |-> TrackInfo(ssrc, id, streamId, "video"),
   transceiver |-> tr, sender |-> sender, track |-> sender]

\* webrtctransport.go:438-441
AddTrackStore(c) ==
  /\ Running
  /\ call[c].op = "AddTrack"
  /\ call[c].pc = "store"
  /\ localTracks' = Put(localTracks, call[c].ssrc,
        LocalTrackInfo(call[c].ssrc, call[c].id, call[c].streamId,
                       call[c].transceiver, call[c].sender))
  /\ mu' = MuFree
  /\ removed' = [deleted |-> removed.deleted \ {call[c].ssrc},
                 returned |-> removed.returned \ {call[c].ssrc}]
  /\ call' = Return(c, [kind |-> "AddTrack", err |-> "nil", ssrc |-> call[c].ssrc,
                        id |-> call[c].id, streamId |-> call[c].streamId])
  /\ UNCHANGED <<scenario, started, remoteTracks, wg, closeSignal, coord,
                 rtpCh, rtcpCh, trackEventsCh, track, fb, engine, metrics,
                 observed, panicked, pumpsAtClose, ctor>>

\* -------------------------------------------------------- RemoveTrack
\* webrtctransport.go:362
RemoveTrackLock(c) ==
  /\ CanStart(c)
  /\ started.remove < scenario.remove
  /\ started' = [started EXCEPT !.remove = @ + 1]
  /\ CanLock
  /\ mu' = [mu EXCEPT !.writer = c]
  /\ \E ssrc \in SSRCs :
       call' = [call EXCEPT ![c] =
                  [Begin(c, "RemoveTrack", "delete") EXCEPT !.ssrc = ssrc]]
  /\ UNCHANGED <<scenario, localTracks, remoteTracks, wg, closeSignal, coord,
                 rtpCh, rtcpCh, trackEventsCh, track, fb, engine, metrics,
                 observed, panicked, pumpsAtClose, removed, ctor>>

\* (mutant) the !ok return is missing: an absent SSRC goes on to the engine
RemoveTrackDeleteNoCheck(c) ==
  /\ Running
  /\ call[c].op = "RemoveTrack"
  /\ call[c].pc = "delete"
  /\ mu' = MuFree
  /\ IF call[c].ssrc \in DOMAIN localTracks
       THEN /\ localTracks' = Del(localTracks, call[c].ssrc)
            /\ removed' = [removed EXCEPT !.deleted = @ \cup {call[c].ssrc}]
            /\ call' = [call EXCEPT ![c].pc = "engine",
                                    ![c].sender = localTracks[call[c].ssrc].sender]
       ELSE /\ localTracks' = localTracks
            /\ removed' = removed
            /\ call' = [call EXCEPT ![c].pc = "engine"]
  /\ UNCHANGED <<scenario, started, remoteTracks, wg, closeSignal, coord,
                 rtpCh, rtcpCh, trackEventsCh, track, fb, engine, metrics,
                 observed, panicked, pumpsAtClose, ctor>>

\* (mutant) the entry is looked up but not deleted
RemoveTrackDeleteKeeps(c) ==
  /\ Running
  /\ call[c].op = "RemoveTrack"
  /\ call[c].pc = "delete"
  /\ mu' = MuFree
  /\ localTracks' = localTracks
  /\ IF call[c].ssrc \in DOMAIN localTracks
       THEN /\ removed' = [removed EXCEPT !.deleted = @ \cup {call[c].ssrc}]
            /\ call' = [call EXCEPT ![c].pc = "engine",
                                    ![c].sender = localTracks[call[c].ssrc].sender]
       ELSE /\ removed' = removed
            /\ call' = Return(c, [kind |-> "RemoveTrack", err |-> "not found",
                                  ssrc |-> call[c].ssrc])
  /\ UNCHANGED <<scenario, started, remoteTracks, wg, closeSignal, coord,
                 rtpCh, rtcpCh, trackEventsCh, track, fb, engine, metrics,
                 observed, panicked, pumpsAtClose, ctor>>

\* webrtctransport.go:363-371: look up, delete if present, unlock
RemoveTrackDelete(c) ==
  /\ Running
  /\ call[c].op = "RemoveTrack"
  /\ call[c].pc = "delete"
  /\ mu' = MuFree
  /\ IF call[c].ssrc \in DOMAIN localTracks
       THEN /\ localTracks' = Del(localTracks, call[c].ssrc)
            /\ removed' = [removed EXCEPT !.deleted = @ \cup {call[c].ssrc}]
            /\ call' = [call EXCEPT ![c].pc = "engine",
                                    ![c].sender = localTracks[call[c].ssrc].sender]
       ELSE /\ localTracks' = localTracks
            /\ removed' = removed
            /\ call' = Return(c, [kind |-> "RemoveTrack", err |-> "not found",
                                  ssrc |-> call[c].ssrc])
  /\ UNCHANGED <<scenario, started, remoteTracks, wg, closeSignal, coord,
                 rtpCh, rtcpCh, trackEventsCh, track, fb, engine, metrics,
                 observed, panicked, pumpsAtClose, ctor>>

\* (mutant) a successful RemoveTrack ends the sender's feedback pump itself
RemoveTrackEngineStopsPump(c) ==
  /\ Running
  /\ call[c].op = "RemoveTrack"
  /\ call[c].pc = "engine"
  /\ \E res \in {"ok", "remove track"} :
       IF res = "ok"
         THEN /\ engine' = [engine EXCEPT !.senders = @ \ {call[c].sender},
                                          !.negotiate = @ + 1]
              /\ removed' = [removed EXCEPT !.returned = @ \cup {call[c].ssrc}]
              /\ call' = Return(c, [kind |-> "RemoveTrack", err |-> "nil",
                                    ssrc |-> call[c].ssrc])
              /\ IF fb[call[c].sender].pc = "read"
                   THEN /\ fb' = [fb EXCEPT ![call[c].sender].pc = "exited"]
                        /\ wg' = wg - 1
                   ELSE fb' = fb /\ wg' = wg
         ELSE /\ engine' = engine
              /\ removed' = removed
              /\ call' = Return(c, [kind |-> "RemoveTrack", err |-> res,
                                    ssrc |-> call[c].ssrc])
              /\ fb' = fb /\ wg' = wg
  /\ UNCHANGED <<scenario, started, localTracks, remoteTracks, mu, closeSignal,
                 coord, rtpCh, rtcpCh, trackEventsCh, track, metrics,
                 observed, panicked, pumpsAtClose, ctor>>

\* webrtctransport.go:373-380: peerConnection.RemoveTrack, then Negotiate
RemoveTrackEngine(c) ==
  /\ Running
  /\ call[c].op = "RemoveTrack"
  /\ call[c].pc = "engine"
  /\ \E res \in {"ok", "remove track"} :
       IF res = "ok"
         THEN /\ engine' = [engine EXCEPT !.senders = @ \ {call[c].sender},
                                          !.negotiate = @ + 1]
              /\ removed' = [removed EXCEPT !.returned = @ \cup {call[c].ssrc}]
              /\ call' = Return(c, [kind |-> "RemoveTrack", err |-> "nil",
                                    ssrc |-> call[c].ssrc])
         ELSE /\ engine' = engine
              /\ removed' = removed
              /\ call' = Return(c, [kind |-> "RemoveTrack", err |-> res,
                                    ssrc |-> call[c].ssrc])
  /\ UNCHANGED <<scenario, started, localTracks, remoteTracks, mu, wg, closeSignal,
                 coord, rtpCh, rtcpCh, trackEventsCh, track, fb, metrics,
                 observed, panicked, pumpsAtClose, ctor>>

\* ----------------------------------------------------------- WriteRTP
\* webrtctransport.go:337
WriteRTPRLock(c) ==
  /\ CanStart(c)
  /\ started.write < scenario.write
  /\ started' = [started EXCEPT !.write = @ + 1]
  /\ CanRLock
  /\ mu' = [mu EXCEPT !.readers = @ \cup {c}]
  /\ \E ssrc \in SSRCs, size \in Sizes :
       call' = [call EXCEPT ![c] =
                  [Begin(c, "WriteRTP", "lookup") EXCEPT
                     !.ssrc = ssrc, !.size = size,
                     !.after = ssrc \in removed.returned]]
  /\ UNCHANGED <<scenario, localTracks, remoteTracks, wg, closeSignal, coord,
                 rtpCh, rtcpCh, trackEventsCh, track, fb, engine, metrics,
                 observed, panicked, pumpsAtClose, removed, ctor>>

\* (mutant) the read lock is released by a defer: it is held during the
\* engine's write
WriteRTPLookupKeepsLock(c) ==
  /\ Running
  /\ call[c].op = "WriteRTP"
  /\ call[c].pc = "lookup"
  /\ IF call[c].ssrc \in DOMAIN localTracks
       THEN /\ mu' = mu
            /\ call' = [call EXCEPT ![c].pc = "write",
                                    ![c].sender = localTracks[call[c].ssrc].track]
       ELSE /\ mu' = [mu EXCEPT !.readers = @ \ {c}]
            /\ call' = Return(c, [kind |-> "WriteRTP", bytes |-> 0,
                                  err |-> "not found", ssrc |-> call[c].ssrc,
                                  size |-> call[c].size, engine |-> "none"])
  /\ UNCHANGED <<scenario, started, localTracks, remoteTracks, wg, closeSignal,
                 coord, rtpCh, rtcpCh, trackEventsCh, track, fb, engine, metrics,
                 observed, panicked, pumpsAtClose, removed, ctor>>

\* webrtctransport.go:338-343
WriteRTPLookup(c) ==
  /\ Running
  /\ call[c].op = "WriteRTP"
  /\ call[c].pc = "lookup"
  /\ mu' = [mu EXCEPT !.readers = @ \ {c}]
  /\ IF call[c].ssrc \in DOMAIN localTracks
       THEN call' = [call EXCEPT ![c].pc = "write",
                                 ![c].sender = localTracks[call[c].ssrc].track]
       ELSE call' = Return(c, [kind |-> "WriteRTP", bytes |-> 0, err |-> "not found",
                               ssrc |-> call[c].ssrc, size |-> call[c].size,
                               engine |-> "none"])
  /\ UNCHANGED <<scenario, started, localTracks, remoteTracks, wg, closeSignal,
                 coord, rtpCh, rtcpCh, trackEventsCh, track, fb, engine, metrics,
                 observed, panicked, pumpsAtClose, removed, ctor>>

\* (mutant) io.ErrClosedPipe is returned to the caller like any other error
WriteResultPropagates(res, size) ==
  CASE res = "io.ErrClosedPipe" ->
         [bytes |-> 0, err |-> "write rtp", pkts |-> 0, counted |-> 0]
    [] res = "error" -> [bytes |-> 0, err |-> "write rtp", pkts |-> 0, counted |-> 0]
    [] OTHER -> [bytes |-> size, err |-> "nil", pkts |-> 1, counted |-> size]

\* (mutant) the counters are updated before the engine's result is looked at
WriteResultCountsFirst(res, size) ==
  CASE res = "io.ErrClosedPipe" ->
         [bytes |-> 0, err |-> "nil", pkts |-> 1, counted |-> size]
    [] res = "error" -> [bytes |-> 0, err |-> "write rtp", pkts |-> 1, counted |-> size]
    [] OTHER -> [bytes |-> size, err |-> "nil", pkts |-> 1, counted |-> size]

\* webrtctransport.go:345-358: what WriteRTP returns and counts for the
\* engine's result res of writing a packet of the given marshal size
WriteResult(res, size) ==
  CASE res = "io.ErrClosedPipe" -> [bytes |-> 0, err |-> "nil", pkts |-> 0, counted |-> 0]
    [] res = "error" -> [bytes |-> 0, err |-> "write rtp", pkts |-> 0, counted |-> 0]
    [] OTHER -> [bytes |-> size, err |-> "nil", pkts |-> 1, counted |-> size]

\* webrtctransport.go:345-358: pta.track.WriteRTP and the counters.
\* metrics.returnedBytes is history: the sum of the byte counts returned.
WriteRTPEngine(c) ==
  /\ Running
  /\ call[c].op = "WriteRTP"
  /\ call[c].pc = "write"
  /\ \E res \in {"ok", "io.ErrClosedPipe", "error"} :
       LET w == WriteResult(res, call[c].size) IN
       /\ metrics' = [metrics EXCEPT !.rtpPacketsSent = @ + w.pkts,
                                     !.rtpPacketsSentBytes = @ + w.counted,
                                     !.returnedBytes = @ + w.bytes]
       /\ call' = Return(c, [kind |-> "WriteRTP", bytes |-> w.bytes, err |-> w.err,
                             ssrc |-> call[c].ssrc, size |-> call[c].size,
                             engine |-> res])
  /\ UNCHANGED <<scenario, started, localTracks, remoteTracks, mu, wg, closeSignal,
                 coord, rtpCh, rtcpCh, trackEventsCh, track, fb, engine,
                 observed, panicked, pumpsAtClose, removed, ctor>>

\* ------------------------------------------- LocalTracks / RemoteTracks
\* the map a listing ranges over
Registry(op) == IF op = "LocalTracks" THEN localTracks ELSE remoteTracks

\* (mutant) the listing does not take the lock before it ranges over the map
ListLockMissing(c, op) ==
  /\ CanStart(c)
  /\ started.list < scenario.list
  /\ started' = [started EXCEPT !.list = @ + 1]
  /\ call' = [call EXCEPT ![c] =
                [Begin(c, op, "range") EXCEPT !.todo = DOMAIN Registry(op)]]
  /\ UNCHANGED <<scenario, localTracks, remoteTracks, mu, wg, closeSignal, coord,
                 rtpCh, rtcpCh, trackEventsCh, track, fb, engine, metrics,
                 observed, panicked, pumpsAtClose, removed, ctor>>

\* webrtctransport.go:460 and 476: p.mu.Lock(), then the range starts
ListLock(c, op) ==
  /\ CanStart(c)
  /\ started.list < scenario.list
  /\ started' = [started EXCEPT !.list = @ + 1]
  /\ CanLock
  /\ mu' = [mu EXCEPT !.writer = c]
  /\ call' = [call EXCEPT ![c] =
                [Begin(c, op, "range") EXCEPT !.todo = DOMAIN Registry(op)]]
  /\ UNCHANGED <<scenario, localTracks, remoteTracks, wg, closeSignal, coord,
                 rtpCh, rtcpCh, trackEventsCh, track, fb, engine, metrics,
                 observed, panicked, pumpsAtClose, removed, ctor>>

\* webrtctransport.go:465-469 and 481-485: one iteration of the range; the
\* entry's transceiver is dereferenced for its Mid
ListRange(c, op) ==
  /\ Running
  /\ call[c].op = op
  /\ call[c].pc = "range"
  /\ \E k \in call[c].todo :
       IF k \notin DOMAIN Registry(op)
         THEN /\ call' = [call EXCEPT ![c].todo = @ \ {k}]
              /\ panicked' = panicked
         ELSE IF Registry(op)[k].transceiver = NIL
           THEN /\ panicked' = "nil pointer dereference"
                /\ call' = call
           ELSE /\ panicked' = panicked
                /\ call' = [call EXCEPT
                     ![c].todo = @ \ {k},
                     ![c].list = Append(@,
                        [Registry(op)[k].trackInfo EXCEPT
                           !.Mid = Mid(Registry(op)[k].transceiver)])]
  /\ UNCHANGED <<scenario, started, localTracks, remoteTracks, mu, wg, closeSignal,
                 coord, rtpCh, rtcpCh, trackEventsCh, track, fb, engine, metrics,
                 observed, pumpsAtClose, removed, ctor>>

\* webrtctransport.go:471 and 487: return list, the deferred Unlock runs
ListReturn(c, op) ==
  /\ Running
  /\ call[c].op = op
  /\ call[c].pc = "range"
  /\ call[c].todo = {}
  /\ mu' = MuFree
  /\ call' = Return(c, [kind |-> op, list |-> call[c].list])
  /\ UNCHANGED <<scenario, started, localTracks, remoteTracks, wg, closeSignal,
                 coord, rtpCh, rtcpCh, trackEventsCh, track, fb, engine, metrics,
                 observed, panicked, pumpsAtClose, removed, ctor>>

LocalTracksLock(c) == ListLock(c, "LocalTracks")
LocalTracksRange(c) == ListRange(c, "LocalTracks")
LocalTracksReturn(c) == ListReturn(c, "LocalTracks")
RemoteTracksLock(c) == ListLock(c, "RemoteTracks")
RemoteTracksRange(c) == ListRange(c, "RemoteTracks")
RemoteTracksReturn(c) == ListReturn(c, "RemoteTracks")

\* -------------------------------------- handleTrack and the receive pump
\* the TrackInfo handleTrack builds, webrtctransport.go:491-497
RemoteInfo(t) == TrackInfo(track[t].ssrc, t, "remote", "video")

\* TrackEvent, webrtctransport.go:30-33
TrackEvent(info, type) == [TrackInfo |-> info, Type |-> type]

\* webrtctransport.go:490-516: the engine calls the OnTrack handler for a new
\* remote track (a negotiation has completed by then); counters, then the
\* transceiver lookup
HandleTrack(t) ==
  /\ Running
  /\ track[t].pc = "none"
  /\ started.tracks < scenario.tracks
  /\ started' = [started EXCEPT !.tracks = @ + 1]
  /\ \A u \in Tracks : TrackOrder[u] < TrackOrder[t] => track[u].pc # "none"
  /\ \E ssrc \in SSRCs, tr \in FoundTransceivers(ReceiverTransceiver(t)) :
       track' = [track EXCEPT ![t] =
                   [pc |-> "addLock", ssrc |-> ssrc, transceiver |-> tr, reads |-> 0,
                    ended |-> "", received |-> <<>>]]
  /\ engine' = [engine EXCEPT !.negotiated = TRUE]
  /\ metrics' = [metrics EXCEPT !.tracksTotal = @ + 1, !.tracksActive = @ + 1]
  /\ UNCHANGED <<scenario, localTracks, remoteTracks, mu, wg, closeSignal, coord,
                 rtpCh, rtcpCh, trackEventsCh, call, fb,
                 observed, panicked, pumpsAtClose, removed, ctor>>

\* addRemoteTrack, webrtctransport.go:445
AddRemoteTrackLock(t) ==
  /\ Running
  /\ track[t].pc = "addLock"
  /\ CanLock
  /\ mu' = [mu EXCEPT !.writer = t]
  /\ track' = [track EXCEPT ![t].pc = "add"]
  /\ UNCHANGED <<scenario, started, localTracks, remoteTracks, wg, closeSignal,
                 coord, rtpCh, rtcpCh, trackEventsCh, call, fb, engine, metrics,
                 observed, panicked, pumpsAtClose, removed, ctor>>

\* remoteTrackInfo, webrtctransport.go:304-309, as built at 516
RemoteTrackInfo(t) ==
  [trackInfo |-> RemoteInfo(t), transceiver |-> track[t].transceiver,
   receiver |-> t, track |-> t]

\* addRemoteTrack, webrtctransport.go:446-449; handleTrack then sends Added
AddRemoteTrack(t) ==
  /\ Running
  /\ track[t].pc = "add"
  /\ remoteTracks' = Put(remoteTracks, track[t].ssrc, RemoteTrackInfo(t))
  /\ mu' = MuFree
  /\ track' = [track EXCEPT ![t].pc = "sendAdd"]
  /\ UNCHANGED <<scenario, started, localTracks, wg, closeSignal, coord,
                 rtpCh, rtcpCh, trackEventsCh, call, fb, engine, metrics,
                 observed, panicked, pumpsAtClose, removed, ctor>>

\* webrtctransport.go:519-522 and 529-532: a consumer receives the event the
\* goroutine of track t is blocked sending on the unbuffered trackEventsCh
RecvTrackEvent(t) ==
  /\ Running
  /\ trackEventsCh = "open"
  /\ track[t].pc \in {"sendAdd", "sendRemove"}
  /\ observed' = [observed EXCEPT ![t] = Append(@,
        TrackEvent(RemoteInfo(t),
                   IF track[t].pc = "sendAdd" THEN TrackEventTypeAdd
                                              ELSE TrackEventTypeRemove))]
  /\ track' = [track EXCEPT ![t].pc = IF @ = "sendAdd" THEN "wgAdd" ELSE "wgDone"]
  /\ UNCHANGED <<scenario, started, localTracks, remoteTracks, mu, wg, closeSignal,
                 coord, rtpCh, rtcpCh, trackEventsCh, call, fb, engine, metrics,
                 panicked, pumpsAtClose, removed, ctor>>

\* webrtctransport.go:524-526: p.wg.Add(1); go func() { ... }
StartReceivePump(t) ==
  /\ Running
  /\ track[t].pc = "wgAdd"
  /\ wg' = wg + 1
  /\ track' = [track EXCEPT ![t].pc = "read"]
  /\ UNCHANGED <<scenario, started, localTracks, remoteTracks, mu, closeSignal,
                 coord, rtpCh, rtcpCh, trackEventsCh, call, fb, engine, metrics,
                 observed, panicked, pumpsAtClose, removed, ctor>>

\* (mutant) a read error other than io.EOF leaves the pump without running the
\* deferred removal and Removed event
ReadRTPErrorSkipsDefer(t) ==
  /\ Running
  /\ track[t].pc = "read"
  /\ \E res \in {"packet", "io.EOF", "error"} :
       CASE res = "packet" ->
              /\ track[t].reads < scenario.pkts
              /\ track' = [track EXCEPT ![t].pc = "sendRTP", ![t].reads = @ + 1]
              /\ metrics' = [metrics EXCEPT !.rtpPacketsReceived = @ + 1]
         [] res = "io.EOF" ->
              /\ track' = [track EXCEPT ![t].pc = "removeLock", ![t].ended = res]
              /\ metrics' = metrics
         [] OTHER ->
              /\ track' = [track EXCEPT ![t].pc = "wgDone", ![t].ended = res]
              /\ metrics' = metrics
  /\ UNCHANGED <<scenario, started, localTracks, remoteTracks, mu, wg, closeSignal,
                 coord, rtpCh, rtcpCh, trackEventsCh, call, fb, engine,
                 observed, panicked, pumpsAtClose, removed, ctor>>

\* webrtctransport.go:541-557: track.ReadRTP() delivers a packet, io.EOF or
\* another error
ReadRTP(t) ==
  /\ Running
  /\ track[t].pc = "read"
  /\ \E res \in {"packet", "io.EOF", "error"} :
       IF res = "packet"
         THEN /\ track[t].reads < scenario.pkts
              /\ track' = [track EXCEPT ![t].pc = "sendRTP", ![t].reads = @ + 1]
              /\ metrics' = [metrics EXCEPT !.rtpPacketsReceived = @ + 1]
         ELSE /\ track' = [track EXCEPT ![t].pc = "removeLock", ![t].ended = res]
              /\ metrics' = metrics
  /\ UNCHANGED <<scenario, started, localTracks, remoteTracks, mu, wg, closeSignal,
                 coord, rtpCh, rtcpCh, trackEventsCh, call, fb, engine,
                 observed, panicked, pumpsAtClose, removed, ctor>>

\* (mutant) the send does not wait for a consumer: with none ready the packet
\* is dropped and the pump reads on
RecvRTPNoWait(t) ==
  /\ Running
  /\ rtpCh = "open"
  /\ track[t].pc = "sendRTP"
  /\ \E ready \in BOOLEAN :
       track' = [track EXCEPT ![t].pc = "read",
                    ![t].received = IF ready THEN Append(@, track[t].reads) ELSE @]
  /\ UNCHANGED <<scenario, started, localTracks, remoteTracks, mu, wg, closeSignal,
                 coord, rtpCh, rtcpCh, trackEventsCh, call, fb, engine, metrics,
                 observed, panicked, pumpsAtClose, removed, ctor>>

\* webrtctransport.go:558: a consumer receives the packet from rtpCh (the
\* packet is the reads-th the engine delivered; received is the consumer's log)
RecvRTP(t) ==
  /\ Running
  /\ rtpCh = "open"
  /\ track[t].pc = "sendRTP"
  /\ track' = [track EXCEPT ![t].pc = "read",
                            ![t].received = Append(@, track[t].reads)]
  /\ UNCHANGED <<scenario, started, localTracks, remoteTracks, mu, wg, closeSignal,
                 coord, rtpCh, rtcpCh, trackEventsCh, call, fb, engine, metrics,
                 observed, panicked, pumpsAtClose, removed, ctor>>

\* removeRemoteTrack, webrtctransport.go:452 (first statement of the defer)
RemoveRemoteTrackLock(t) ==
  /\ Running
  /\ track[t].pc = "removeLock"
  /\ CanLock
  /\ mu' = [mu EXCEPT !.writer = t]
  /\ track' = [track EXCEPT ![t].pc = "remove"]
  /\ UNCHANGED <<scenario, started, localTracks, remoteTracks, wg, closeSignal,
                 coord, rtpCh, rtcpCh, trackEventsCh, call, fb, engine, metrics,
                 observed, panicked, pumpsAtClose, removed, ctor>>

\* (mutant) one map holds the tracks of both directions: the pump's exit
\* deletes the SSRC from localTracks too
RemoveRemoteTrackBoth(t) ==
  /\ Running
  /\ track[t].pc = "remove"
  /\ remoteTracks' = Del(remoteTracks, track[t].ssrc)
  /\ localTracks' = Del(localTracks, track[t].ssrc)
  /\ mu' = MuFree
  /\ track' = [track EXCEPT ![t].pc = "sendRemove"]
  /\ UNCHANGED <<scenario, started, wg, closeSignal, coord,
                 rtpCh, rtcpCh, trackEventsCh, call, fb, engine, metrics,
                 observed, panicked, pumpsAtClose, removed, ctor>>

\* removeRemoteTrack, webrtctransport.go:453-456; the defer then sends Removed
RemoveRemoteTrack(t) ==
  /\ Running
  /\ track[t].pc = "remove"
  /\ remoteTracks' = Del(remoteTracks, track[t].ssrc)
  /\ mu' = MuFree
  /\ track' = [track EXCEPT ![t].pc = "sendRemove"]
  /\ UNCHANGED <<scenario, started, localTracks, wg, closeSignal, coord,
                 rtpCh, rtcpCh, trackEventsCh, call, fb, engine, metrics,
                 observed, panicked, pumpsAtClose, removed, ctor>>

\* webrtctransport.go:534-537: p.wg.Done(), gauge, duration; the goroutine ends
ReceivePumpDone(t) ==
  /\ Running
  /\ track[t].pc = "wgDone"
  /\ wg' = wg - 1
  /\ metrics' = [metrics EXCEPT !.tracksActive = @ - 1]
  /\ track' = [track EXCEPT ![t].pc = "exited"]
  /\ UNCHANGED <<scenario, started, localTracks, remoteTracks, mu, closeSignal,
                 coord, rtpCh, rtcpCh, trackEventsCh, call, fb, engine,
                 observed, panicked, pumpsAtClose, removed, ctor>>

\* ------------------------------------------------ the send-feedback pump
\* webrtctransport.go:403-413: sender.ReadRTCP() fails (return, deferred
\* wg.Done) or delivers a batch of packets
ReadRTCP(s) ==
  /\ Running
  /\ fb[s].pc = "read"
  /\ \E res \in {"error", "packets"} :
       IF res = "error"
         THEN /\ fb' = [fb EXCEPT ![s].pc = "exited"]
              /\ wg' = wg - 1
              /\ metrics' = metrics
         ELSE /\ fb[s].reads < scenario.pkts
              /\ \E n \in {1, 2} :
                   fb' = [fb EXCEPT ![s].pc = "sendRTCP", ![s].pending = n,
                                    ![s].batch = n, ![s].reads = @ + 1]
              /\ wg' = wg
              /\ metrics' = [metrics EXCEPT !.rtcpPacketsReceived = @ + 1]
  /\ UNCHANGED <<scenario, started, localTracks, remoteTracks, mu, closeSignal,
                 coord, rtpCh, rtcpCh, trackEventsCh, call, track, engine,
                 observed, panicked, pumpsAtClose, removed, ctor>>

\* webrtctransport.go:411-415: a consumer receives the packet from rtcpCh; the
\* pump goes on to the next packet of the batch or to the next read
RecvRTCP(s) ==
  /\ Running
  /\ rtcpCh = "open"
  /\ fb[s].pc = "sendRTCP"
  /\ LET pkt == <<fb[s].reads, fb[s].batch - fb[s].pending + 1, fb[s].batch>> IN
     IF fb[s].pending > 1
       THEN /\ fb' = [fb EXCEPT ![s].pending = @ - 1,
                                ![s].received = Append(@, pkt)]
            /\ metrics' = [metrics EXCEPT !.rtcpPacketsReceived = @ + 1]
       ELSE /\ fb' = [fb EXCEPT ![s].pending = 0, ![s].pc = "read",
                                ![s].received = Append(@, pkt)]
            /\ metrics' = metrics
  /\ UNCHANGED <<scenario, started, localTracks, remoteTracks, mu, wg, closeSignal,
                 coord, rtpCh, rtcpCh, trackEventsCh, call, track, engine,
                 observed, panicked, pumpsAtClose, removed, ctor>>

\* ------------------------------------------------------ Go channel rules
\* the goroutines that are in a send on each shared channel
SendingOnTrackEvents == {t \in Tracks : track[t].pc \in {"sendAdd", "sendRemove"}}
SendingOnRTP == {t \in Tracks : track[t].pc = "sendRTP"}
SendingOnRTCP == {s \in Senders : fb[s].pc = "sendRTCP"}

\* some goroutine is in a send on a channel that has been closed
SendsOnClosed ==
  \/ trackEventsCh = "closed" /\ SendingOnTrackEvents # {}
  \/ rtpCh = "closed" /\ SendingOnRTP # {}
  \/ rtcpCh = "closed" /\ SendingOnRTCP # {}

\* a send on a closed channel panics, also when the channel is closed while
\* the sender is blocked in the send; an unrecovered panic ends the process
SendOnClosedChannel ==
  /\ Running
  /\ SendsOnClosed
  /\ panicked' = "send on closed channel"
  /\ UNCHANGED <<scenario, started, localTracks, remoteTracks, mu, wg, closeSignal,
                 coord, rtpCh, rtcpCh, trackEventsCh, call, track, fb, engine,
                 metrics, observed, pumpsAtClose, removed, ctor>>

\* ------------------------------------------------- the shutdown goroutine
\* the pumps that have been started and have not made their wg.Done()
ReceivePumps ==
  {t \in Tracks : track[t].pc \in
     {"read", "sendRTP", "removeLock", "remove", "sendRemove", "wgDone"}}
FeedbackPumps == {s \in Senders : fb[s].pc \in {"read", "sendRTCP"}}
Pumps == {<<"receive", t>> : t \in ReceivePumps} \cup
         {<<"feedback", s>> : s \in FeedbackPumps}

\* the signaller closes its close channel (Close(), or the connection ended)
SignallerClose ==
  /\ Running
  /\ ~closeSignal
  /\ scenario.close
  /\ closeSignal' = TRUE
  /\ pumpsAtClose' = Pumps
  /\ UNCHANGED <<scenario, started, localTracks, remoteTracks, mu, wg, coord,
                 rtpCh, rtcpCh, trackEventsCh, call, track, fb, engine, metrics,
                 observed, panicked, removed, ctor>>

\* webrtctransport.go:286: <-signaller.CloseChannel()
CoordCloseSignal ==
  /\ Running
  /\ coord = "waitClose"
  /\ closeSignal
  /\ coord' = "wgWait"
  /\ UNCHANGED <<scenario, started, localTracks, remoteTracks, mu, wg, closeSignal,
                 rtpCh, rtcpCh, trackEventsCh, call, track, fb, engine, metrics,
                 observed, panicked, pumpsAtClose, removed, ctor>>

\* (mutant) the join is skipped: Wait returns whatever the counter is
WaitReturnsAtOnce == wg >= 0

\* sync.WaitGroup.Wait returns when the counter is zero
WaitReturns == wg = 0

\* webrtctransport.go:288-289: transport.wg.Wait(), dataTransceiver.Close()
CoordWait ==
  /\ Running
  /\ coord = "wgWait"
  /\ WaitReturns
  /\ coord' = "closeRTP"
  /\ UNCHANGED <<scenario, started, localTracks, remoteTracks, mu, wg, closeSignal,
                 rtpCh, rtcpCh, trackEventsCh, call, track, fb, engine, metrics,
                 observed, panicked, pumpsAtClose, removed, ctor>>

\* webrtctransport.go:290
CoordCloseRTP ==
  /\ Running
  /\ coord = "closeRTP"
  /\ rtpCh' = "closed"
  /\ coord' = "closeRTCP"
  /\ UNCHANGED <<scenario, started, localTracks, remoteTracks, mu, wg, closeSignal,
                 rtcpCh, trackEventsCh, call, track, fb, engine, metrics,
                 observed, panicked, pumpsAtClose, removed, ctor>>

\* webrtctransport.go:291
CoordCloseRTCP ==
  /\ Running
  /\ coord = "closeRTCP"
  /\ rtcpCh' = "closed"
  /\ coord' = "closeTrackEvents"
  /\ UNCHANGED <<scenario, started, localTracks, remoteTracks, mu, wg, closeSignal,
                 rtpCh, trackEventsCh, call, track, fb, engine, metrics,
                 observed, panicked, pumpsAtClose, removed, ctor>>

\* webrtctransport.go:292
CoordCloseTrackEvents ==
  /\ Running
  /\ coord = "closeTrackEvents"
  /\ trackEventsCh' = "closed"
  /\ coord' = "done"
  /\ UNCHANGED <<scenario, started, localTracks, remoteTracks, mu, wg, closeSignal,
                 rtpCh, rtcpCh, call, track, fb, engine, metrics,
                 observed, panicked, pumpsAtClose, removed, ctor>>

\* ---------------------------------------------------------- the engine
\* a negotiation the transport asked for completes: the transceivers get
\* their mids
EngineNegotiated ==
  /\ Running
  /\ ~engine.negotiated
  /\ engine.negotiate + engine.transceiverRequests > 0
  /\ engine' = [engine EXCEPT !.negotiated = TRUE]
  /\ UNCHANGED <<scenario, started, localTracks, remoteTracks, mu, wg, closeSignal,
                 coord, rtpCh, rtcpCh, trackEventsCh, call, track, fb, metrics,
                 observed, panicked, pumpsAtClose, removed, ctor>>

\* ------------------------------------------------------------ Next, Spec
CallerStep(c) ==
  \/ AddTrackStart(c) \/ AddTrackLock(c) \/ AddTrackStore(c)
  \/ RemoveTrackLock(c) \/ RemoveTrackDelete(c) \/ RemoveTrackEngine(c)
  \/ WriteRTPRLock(c) \/ WriteRTPLookup(c) \/ WriteRTPEngine(c)
  \/ LocalTracksLock(c) \/ LocalTracksRange(c) \/ LocalTracksReturn(c)
  \/ RemoteTracksLock(c) \/ RemoteTracksRange(c) \/ RemoteTracksReturn(c)

TrackStep(t) ==
  \/ HandleTrack(t) \/ AddRemoteTrackLock(t) \/ AddRemoteTrack(t)
  \/ RecvTrackEvent(t) \/ StartReceivePump(t) \/ ReadRTP(t) \/ RecvRTP(t)
  \/ RemoveRemoteTrackLock(t) \/ RemoveRemoteTrack(t) \/ ReceivePumpDone(t)

PumpStep(s) == ReadRTCP(s) \/ RecvRTCP(s)

Next ==
  \/ \E c \in Callers : CallerStep(c)
  \/ \E t \in Tracks : TrackStep(t)
  \/ \E s \in Senders : PumpStep(s)
  \/ SendOnClosedChannel
  \/ SignallerClose
  \/ CoordCloseSignal
  \/ CoordWait
  \/ CoordCloseRTP
  \/ CoordCloseRTCP
  \/ CoordCloseTrackEvents
  \/ EngineNegotiated

Spec == Init /\ [][Next]_vars

\* the transport from the call of its constructor on
CtorNext ==
  \/ CtorDataChannel
  \/ CtorSignaller
  \/ CtorTransport
  \/ CtorReturn
  \/ Next

CtorSpec == CtorInit /\ [][CtorNext]_vars

\* =================================================================== claims
AnyChannelClosed ==
  rtpCh = "closed" \/ rtcpCh = "closed" \/ trackEventsCh = "closed"

\* C1: no goroutine that publishes on rtpCh, rtcpCh or trackEventsCh (a
\* send-feedback pump, a receive pump, handleTrack sending Added) is ever in a
\* send on a channel the shutdown goroutine has closed.
C1_NoSendOnClosedChannel == ~SendsOnClosed

\* C2: a shared channel is closed only once the close signal has fired and
\* every pump that was outstanding when it fired has terminated.
C2_ClosedOnlyAfterJoin ==
  AnyChannelClosed => closeSignal /\ pumpsAtClose \cap Pumps = {}

\* C2 witness: the channels are all closed after a close signal that found
\* a receive pump and a send-feedback pump outstanding
C2_Witness ==
  /\ trackEventsCh = "closed"
  /\ \E t \in Tracks, s \in Senders :
       {<<"receive", t>>, <<"feedback", s>>} \subseteq pumpsAtClose

\* the two events of remote track t
EventsOf(t) ==
  <<TrackEvent(RemoteInfo(t), TrackEventTypeAdd),
    TrackEvent(RemoteInfo(t), TrackEventTypeRemove)>>

\* C3: what a consumer has received for a remote track is always a prefix of
\* <<Added, Removed>>, both with the track's SSRC: Added is there once the
\* pump was started, and both are there, once each, when the pump has made
\* its Done, whether the read loop ended by io.EOF or by another error.
C3_AddedThenRemoved ==
  \A t \in Tracks :
    /\ Len(observed[t]) <= 2
    /\ track[t].pc # "none" =>
         /\ observed[t] = SubSeq(EventsOf(t), 1, Len(observed[t]))
         /\ \A i \in 1..Len(observed[t]) :
              observed[t][i].TrackInfo.SSRC = track[t].ssrc
    /\ track[t].pc = "none" => observed[t] = <<>>
    /\ track[t].pc \in {"wgAdd", "read", "sendRTP", "removeLock", "remove",
                        "sendRemove"} => Len(observed[t]) = 1
    /\ track[t].pc \in {"wgDone", "exited"} => Len(observed[t]) = 2

\* C3 witness: a pump whose read loop ended by an error other than io.EOF has
\* exited with both events received, and one that ended by io.EOF as well
C3_Witness ==
  \E t, u \in Tracks :
    /\ track[t].pc = "exited" /\ track[t].ended = "error"
    /\ track[u].pc = "exited" /\ track[u].ended = "io.EOF"
    /\ Len(observed[t]) = 2 /\ Len(observed[u]) = 2

\* caller c takes the step of its call that is at position pc of operation op
StepOf(c, op, pc) == call[c].op = op /\ call[c].pc = pc /\ call'[c] # call[c]

\* C4: when WriteRTP or RemoveTrack looks up an SSRC that is not in
\* localTracks, the call returns the not-found error at once, both registries
\* are as before, and the engine and the signaller are not called.
C4_NotFoundLeavesAll ==
  [][\A c \in Callers :
       (/\ StepOf(c, "WriteRTP", "lookup") \/ StepOf(c, "RemoveTrack", "delete")
        /\ call[c].ssrc \notin DOMAIN localTracks)
       => /\ call'[c].pc = "idle"
          /\ call'[c].ret.kind = call[c].op
          /\ call'[c].ret.err = "not found"
          /\ call'[c].ret.ssrc = call[c].ssrc
          /\ localTracks' = localTracks
          /\ remoteTracks' = remoteTracks
          /\ engine' = engine]_vars

\* C4 witness: a WriteRTP and a RemoveTrack have both returned not found
C4_Witness ==
  \E c, d \in Callers :
    /\ call[c].ret.kind = "WriteRTP" /\ call[c].ret.err = "not found"
    /\ call[d].ret.kind = "RemoveTrack" /\ call[d].ret.err = "not found"

\* C5 as claimed: a WriteRTP that begins after a RemoveTrack of its SSRC has
\* returned success, and looks the SSRC up before any AddTrack of it has
\* completed since that return, returns not found.
C5_NotFoundAfterRemoveReturned ==
  [][\A c \in Callers :
       (/\ StepOf(c, "WriteRTP", "lookup")
        /\ call[c].after
        /\ call[c].ssrc \in removed.returned)
       => call'[c].ret.err = "not found"]_vars

\* C5 amended: the same, provided no AddTrack of the SSRC has stored its entry
\* since the RemoveTrack deleted the entry (an AddTrack that runs concurrently
\* with the RemoveTrack can store after the deletion and before the return).
C5_NotFoundAfterRemoveDeleted ==
  [][\A c \in Callers :
       (/\ StepOf(c, "WriteRTP", "lookup")
        /\ call[c].after
        /\ call[c].ssrc \in removed.returned \cap removed.deleted)
       => /\ call'[c].pc = "idle"
          /\ call'[c].ret.err = "not found"
          /\ call'[c].ret.bytes = 0]_vars

\* C5 witness: a WriteRTP begun after a successful RemoveTrack of its SSRC is
\* about to look the SSRC up, and no AddTrack has stored it since
C5_Witness ==
  \E c \in Callers :
    /\ call[c].op = "WriteRTP" /\ call[c].pc = "lookup" /\ call[c].after
    /\ call[c].ssrc \in removed.returned \cap removed.deleted

\* C6: an AddTrack that fails at NewTrackLocalStaticRTP or at
\* peerConnection.AddTrack returns the error and leaves localTracks, the
\* pumps, the WaitGroup counter, the engine and the signaller as they were.
C6_FailedAddChangesNothing ==
  [][(/\ started'.add # started.add
      /\ \A c \in Callers : ~(call[c].pc = "idle" /\ call'[c].pc = "lock"))
     => /\ \E c \in Callers :
             /\ call[c].pc = "idle" /\ call'[c].pc = "idle"
             /\ call'[c].ret.kind = "AddTrack"
             /\ call'[c].ret.err \in {"new track", "add track"}
        /\ localTracks' = localTracks
        /\ fb' = fb
        /\ wg' = wg
        /\ engine' = engine]_vars

\* C6 witness: an AddTrack has failed at peerConnection.AddTrack
C6_Witness ==
  \E c \in Callers : call[c].ret.kind = "AddTrack" /\ call[c].ret.err = "add track"

\* C7: when the only AddTrack and the only change made to a new session has
\* returned success to a caller, the LocalTracks that caller makes next
\* returns exactly one entry, with the SSRC, id and stream id of the add.
C7_AddThenList ==
  [][\A c \in Callers :
       (/\ StepOf(c, "LocalTracks", "range")
        /\ call'[c].pc = "idle"
        /\ call[c].ret.kind = "AddTrack" /\ call[c].ret.err = "nil"
        /\ started.add = 1 /\ started.remove = 0)
       => /\ call'[c].ret.kind = "LocalTracks"
          /\ Len(call'[c].ret.list) = 1
          /\ call'[c].ret.list[1].SSRC = call[c].ret.ssrc
          /\ call'[c].ret.list[1].ID = call[c].ret.id
          /\ call'[c].ret.list[1].StreamID = call[c].ret.streamId]_vars

\* C7 witness: that LocalTracks call is about to return its list
C7_Witness ==
  \E c \in Callers :
    /\ call[c].op = "LocalTracks" /\ call[c].pc = "range" /\ call[c].todo = {}
    /\ call[c].ret.kind = "AddTrack" /\ call[c].ret.err = "nil"
    /\ started.add = 1 /\ started.remove = 0
    /\ Len(call[c].list) = 1

\* C8: when the engine's write reports io.ErrClosedPipe, WriteRTP returns
\* (0, nil) and the sent-packet and sent-byte counters stay; any other error
\* of the engine's write is returned as an error with zero bytes.
C8_NoSubscriberIsBenign ==
  [][\A c \in Callers :
       StepOf(c, "WriteRTP", "write")
       => /\ call'[c].pc = "idle"
          /\ call'[c].ret.engine = "io.ErrClosedPipe"
               => /\ call'[c].ret.bytes = 0
                  /\ call'[c].ret.err = "nil"
                  /\ metrics'.rtpPacketsSent = metrics.rtpPacketsSent
                  /\ metrics'.rtpPacketsSentBytes = metrics.rtpPacketsSentBytes
          /\ call'[c].ret.engine = "error"
               => /\ call'[c].ret.bytes = 0
                  /\ call'[c].ret.err # "nil"]_vars

\* C8 witness: a WriteRTP has returned (0, nil) for io.ErrClosedPipe
C8_Witness ==
  \E c \in Callers :
    /\ call[c].ret.kind = "WriteRTP" /\ call[c].ret.engine = "io.ErrClosedPipe"
    /\ call[c].ret.bytes = 0 /\ call[c].ret.err = "nil"

\* C9: a WriteRTP the engine accepts returns (packet.MarshalSize(), nil),
\* adds one to the sent-packet counter and that size to the sent-byte
\* counter; the sent-byte counter is always the sum of the byte counts
\* returned.
C9_SentBytesCounted ==
  /\ [](metrics.rtpPacketsSentBytes = metrics.returnedBytes)
  /\ [][\A c \in Callers :
          (StepOf(c, "WriteRTP", "write") /\ call'[c].ret.engine = "ok")
          => /\ call'[c].ret.bytes = call[c].size
             /\ call'[c].ret.err = "nil"
             /\ metrics'.rtpPacketsSent = metrics.rtpPacketsSent + 1
             /\ metrics'.rtpPacketsSentBytes =
                  metrics.rtpPacketsSentBytes + call[c].size]_vars

\* C9 witness: a WriteRTP of a 200-byte packet has returned (200, nil) after a
\* write of a 12-byte packet was sent too and another write was not
C9_Witness ==
  \E c \in Callers :
    /\ call[c].ret.kind = "WriteRTP" /\ call[c].ret.engine = "ok"
    /\ call[c].ret.bytes = 200 /\ call[c].ret.err = "nil"
    /\ started.write = 3
    /\ metrics.rtpPacketsSent = 2
    /\ metrics.rtpPacketsSentBytes = 212

\* the registry's content as a listing reports it, the Mid aside
Content(m) == {m[k].trackInfo : k \in DOMAIN m}
Listed(list) == {[list[i] EXCEPT !.Mid = ""] : i \in 1..Len(list)}

\* C10: the list LocalTracks or RemoteTracks returns holds, once each, exactly
\* the entries of the registry at the instant of the return, each with the
\* SSRC, id, stream id and kind stored by one add, whatever adds and removes
\* run concurrently with the listing.
C10_ListIsSnapshot ==
  [][\A c \in Callers :
       (/\ StepOf(c, "LocalTracks", "range") \/ StepOf(c, "RemoteTracks", "range")
        /\ call'[c].pc = "idle")
       => /\ Listed(call'[c].ret.list) = Content(Registry(call[c].op))
          /\ Len(call'[c].ret.list) = Cardinality(DOMAIN Registry(call[c].op))]_vars

\* C10 witness: a listing that has collected an entry holds the lock while
\* another caller's AddTrack waits for it
C10_Witness ==
  \E c, d \in Callers :
    /\ call[c].op \in {"LocalTracks", "RemoteTracks"} /\ call[c].pc = "range"
    /\ Len(call[c].list) >= 1
    /\ mu.writer = c
    /\ call[d].op = "AddTrack" /\ call[d].pc = "lock"

\* ------------------------------------------------------------- scheduling
\* a caller that has entered a method goes on to its end (it starts no call
\* unless it wants to)
CallerProgress(c) ==
  \/ AddTrackLock(c) \/ AddTrackStore(c)
  \/ RemoveTrackDelete(c) \/ RemoveTrackEngine(c)
  \/ WriteRTPLookup(c) \/ WriteRTPEngine(c)
  \/ LocalTracksRange(c) \/ LocalTracksReturn(c)
  \/ RemoteTracksRange(c) \/ RemoteTracksReturn(c)

\* handleTrack and the receive pump go on once the engine has called the
\* handler: the Go scheduler runs every runnable goroutine, the engine answers
\* every read, and the consumers keep receiving from the channels
TrackProgress(t) ==
  \/ AddRemoteTrackLock(t) \/ AddRemoteTrack(t)
  \/ RecvTrackEvent(t) \/ StartReceivePump(t) \/ ReadRTP(t) \/ RecvRTP(t)
  \/ RemoveRemoteTrackLock(t) \/ RemoveRemoteTrack(t) \/ ReceivePumpDone(t)

\* the shutdown goroutine goes on when it can
CoordProgress ==
  \/ CoordCloseSignal \/ CoordWait
  \/ CoordCloseRTP \/ CoordCloseRTCP \/ CoordCloseTrackEvents

Fairness ==
  /\ \A c \in Callers : WF_vars(CallerProgress(c))
  /\ \A t \in Tracks : WF_vars(TrackProgress(t))
  /\ \A s \in Senders : WF_vars(PumpStep(s))
  /\ WF_vars(CoordProgress)
  /\ WF_vars(SendOnClosedChannel)

\* once the close signal has fired the engine delivers no packet any more:
\* track.ReadRTP() and sender.ReadRTCP() fail
EngineFailsReads ==
  closeSignal => /\ \A t \in Tracks : track'[t].reads = track[t].reads
                 /\ \A s \in Senders : fb'[s].reads = fb[s].reads

ReadRTPClosing(t) == ReadRTP(t) /\ EngineFailsReads
ReadRTCPClosing(s) == ReadRTCP(s) /\ EngineFailsReads

\* the sessions that get closed; their callers add tracks and make no other call
LiveInit == Init /\ scenario.close

LiveNext ==
  \/ \E c \in Callers : AddTrackStart(c) \/ AddTrackLock(c) \/ AddTrackStore(c)
  \/ \E t \in Tracks :
       \/ HandleTrack(t) \/ AddRemoteTrackLock(t) \/ AddRemoteTrack(t)
       \/ RecvTrackEvent(t) \/ StartReceivePump(t) \/ ReadRTPClosing(t)
       \/ RecvRTP(t) \/ RemoveRemoteTrackLock(t) \/ RemoveRemoteTrack(t)
       \/ ReceivePumpDone(t)
  \/ \E s \in Senders : ReadRTCPClosing(s) \/ RecvRTCP(s)
  \/ SendOnClosedChannel
  \/ SignallerClose
  \/ CoordCloseSignal
  \/ CoordWait
  \/ CoordCloseRTP
  \/ CoordCloseRTCP
  \/ CoordCloseTrackEvents
  \/ EngineNegotiated

\* the transport with its goroutines scheduled fairly, on an engine whose
\* reads fail once the session is closing
LiveSpec == LiveInit /\ [][LiveNext]_vars /\ Fairness

\* the session has reached Closed
SessionClosed ==
  /\ Pumps = {}
  /\ wg = 0
  /\ coord = "done"
  /\ rtpCh = "closed" /\ rtcpCh = "closed" /\ trackEventsCh = "closed"

\* C11: once the close signal has fired, with the engine failing the reads
\* and the consumers receiving, every pump exits, wg.Wait() returns and the
\* three shared channels are closed.
C11_TeardownCompletes == closeSignal ~> SessionClosed

\* C13: when NewWebRTCTransport has failed, at CreateDataChannel or at
\* NewSignaller, peerConnection.Close() has been called, the error names the
\* step and no transport is returned, handleTrack is not registered, the
\* shutdown goroutine is not started and no channel or map has been made; no
\* method of a transport ever runs on that peer connection.
C13_FailedConstruction ==
  ctor.pc = "failed" =>
    /\ ctor.peerClosed
    /\ ctor.err \in {"create data channel", "initialize signaller"}
    /\ ctor.err = "create data channel" => scenario.initiator /\ ~ctor.dataChannel
    /\ ~ctor.transport
    /\ ~ctor.onTrack
    /\ coord = "none"
    /\ rtpCh = NIL /\ rtcpCh = NIL /\ trackEventsCh = NIL
    /\ localTracks = NIL /\ remoteTracks = NIL
    /\ started = [add |-> 0, remove |-> 0, write |-> 0, list |-> 0, tracks |-> 0]

\* C13 witness: the constructor of an initiator has failed at NewSignaller,
\* after the data channel and the ICE handler were set up
C13_Witness ==
  /\ ctor.pc = "failed" /\ ctor.err = "initialize signaller"
  /\ ctor.dataChannel /\ ctor.onICE /\ ctor.peerClosed

\* C14: a RemoveTrack of an SSRC that was in localTracks either returns nil,
\* with the sender removed from the engine, the entry deleted and a
\* negotiation asked for, or returns an error with the entry still in
\* localTracks.
C14_RemoveAllOrNothing ==
  [][\A c \in Callers :
       StepOf(c, "RemoveTrack", "engine")
       => IF call'[c].ret.err = "nil"
            THEN /\ call[c].sender \notin engine'.senders
                 /\ engine'.negotiate = engine.negotiate + 1
                 /\ call[c].ssrc \in removed.deleted
                      => call[c].ssrc \notin DOMAIN localTracks'
            ELSE call[c].ssrc \in DOMAIN localTracks']_vars

\* the senders a RemoveTrack has removed from the engine
RemovedSenders == (1..engine.created) \ engine.senders

\* C15: a send-feedback pump exits only by its own step, on a failed
\* sender.ReadRTCP(), the WaitGroup counter going down by one; by then a
\* consumer has received every feedback packet it read; once exited it does
\* nothing more. RemoveTrack leaves the pumps and the WaitGroup counter as
\* they are: the pump of a removed sender stays counted until its read fails.
C15_FeedbackPumpExit ==
  /\ [](/\ wg = Cardinality(ReceivePumps) + Cardinality(FeedbackPumps)
        /\ \A s \in Senders :
             fb[s].pc \in {"read", "exited"} => fb[s].pending = 0)
  /\ [][\A s \in Senders :
          /\ (fb[s].pc # "exited" /\ fb'[s].pc = "exited")
               => /\ fb[s].pc = "read"
                  /\ fb'[s] = [fb[s] EXCEPT !.pc = "exited"]
                  /\ wg' = wg - 1
                  /\ call' = call /\ engine' = engine
          /\ fb[s].pc = "exited" => fb'[s] = fb[s]]_vars
  /\ [][\A c \in Callers :
          StepOf(c, "RemoveTrack", "engine") => fb' = fb /\ wg' = wg]_vars

\* C15 witness: a RemoveTrack has returned nil, its sender is removed from the
\* engine, and the sender's feedback pump is still reading, counted by wg
C15_Witness ==
  \E c \in Callers, s \in RemovedSenders :
    /\ call[c].ret.kind = "RemoveTrack" /\ call[c].ret.err = "nil"
    /\ fb[s].pc = "read"
    /\ wg >= 1

\* map n is map m with key k set to v and nothing else changed
IsPut(m, n, k, v) ==
  /\ DOMAIN n = DOMAIN m \cup {k}
  /\ n[k] = v
  /\ \A x \in DOMAIN m \ {k} : n[x] = m[x]

\* map n is map m without key k and nothing else changed
IsDel(m, n, k) ==
  /\ DOMAIN n = DOMAIN m \ {k}
  /\ \A x \in DOMAIN n : n[x] = m[x]

\* C16: a step that changes localTracks is a caller's AddTrack or RemoveTrack
\* and leaves remoteTracks as it is; a step that changes remoteTracks is a
\* remote track's handleTrack or pump exit and leaves localTracks as it is,
\* whatever SSRCs the two maps share. An add sets the one entry of its SSRC,
\* replacing the entry the map had for it; a remove deletes that one entry.
C16_RegistriesIndependent ==
  [][/\ localTracks' # localTracks
          => /\ remoteTracks' = remoteTracks
             /\ track' = track
             /\ \E c \in Callers :
                  \/ /\ StepOf(c, "AddTrack", "store")
                     /\ IsPut(localTracks, localTracks', call[c].ssrc,
                              LocalTrackInfo(call[c].ssrc, call[c].id,
                                             call[c].streamId,
                                             call[c].transceiver, call[c].sender))
                  \/ /\ StepOf(c, "RemoveTrack", "delete")
                     /\ IsDel(localTracks, localTracks', call[c].ssrc)
     /\ remoteTracks' # remoteTracks
          => /\ localTracks' = localTracks
             /\ call' = call
             /\ \E t \in Tracks :
                  \/ /\ track[t].pc = "add"
                     /\ IsPut(remoteTracks, remoteTracks', track[t].ssrc,
                              RemoteTrackInfo(t))
                  \/ /\ track[t].pc = "remove"
                     /\ IsDel(remoteTracks, remoteTracks', track[t].ssrc)]_vars

\* C16 witness: a remote track's pump has deleted its SSRC from remoteTracks
\* while localTracks holds an entry of the same SSRC
C16_Witness ==
  \E t \in Tracks :
    /\ track[t].pc \in {"sendRemove", "wgDone", "exited"}
    /\ track[t].ssrc \in DOMAIN localTracks
    /\ track[t].ssrc \notin DOMAIN remoteTracks

\* the goroutines that hold p.mu
LockHolders == (IF mu.writer = NoProc THEN {} ELSE {mu.writer}) \cup mu.readers

\* goroutine g is inside a call of the engine or of the signaller, or in a
\* send on a shared channel
InEngineOrSend(g) ==
  \/ g \in Callers /\ call[g].pc \in {"write", "engine"}
  \/ g \in Tracks /\ track[g].pc \in {"read", "sendAdd", "sendRemove", "sendRTP"}

\* C17: a goroutine that holds p.mu is between the Lock and the Unlock of a
\* registry method, never in a call of the engine or the signaller nor in a
\* send on a channel, and no step made with the lock held calls the engine,
\* starts a pump or ends a send; a writer holds the lock alone.
C17_NoIOUnderLock ==
  /\ [](/\ mu.writer # NoProc => mu.readers = {}
        /\ \A g \in LockHolders : ~InEngineOrSend(g)
        /\ \A c \in Callers :
             /\ mu.writer = c <=> call[c].pc \in {"store", "delete", "range"}
             /\ c \in mu.readers <=> call[c].pc = "lookup"
        /\ \A t \in Tracks : mu.writer = t <=> track[t].pc \in {"add", "remove"}
        /\ LockHolders \subseteq Callers \cup Tracks)
  /\ [][\A g \in LockHolders :
          /\ g \in Callers /\ call'[g] # call[g]
               => engine' = engine /\ fb' = fb /\ wg' = wg /\ metrics' = metrics
          /\ g \in Tracks /\ track'[g] # track[g]
               => engine' = engine /\ wg' = wg /\ observed' = observed
                                   /\ metrics' = metrics]_vars

\* C17 witness: an AddTrack holds the lock for its store while a remote
\* track's handler is in its send of the Added event and a feedback pump reads
C17_Witness ==
  \E c \in Callers, t \in Tracks, s \in Senders :
    /\ mu.writer = c /\ call[c].pc = "store"
    /\ track[t].pc = "sendAdd"
    /\ fb[s].pc = "read"

\* C18: every entry of remoteTracks is the entry of a remote track whose pump
\* has not exited, and the removeRemoteTrack of a pump's exit leaves the
\* entries of the other tracks in the map, also the entry of a later track
\* that has the same SSRC.
C18_ExitRemovesOwnEntry ==
  /\ [](\A k \in DOMAIN remoteTracks :
          track[remoteTracks[k].track].pc \notin {"none", "wgDone", "exited"})
  /\ [][\A t \in Tracks :
          (track[t].pc = "remove" /\ track'[t].pc = "sendRemove")
          => \A k \in DOMAIN remoteTracks :
               remoteTracks[k].track # t
               => k \in DOMAIN remoteTracks' /\ remoteTracks'[k] = remoteTracks[k]]_vars

\* C19: when a consumer receives the Added event of a remote track,
\* remoteTracks holds the track's SSRC, and holds it for as long as the track's
\* read loop runs; when a consumer receives the Removed event, the entry
\* stored for the track is no longer in remoteTracks, and the WaitGroup counts
\* the pump until then.
C19_RegistryBeforeEvent ==
  /\ [](/\ \A t \in Tracks :
             track[t].pc \in {"wgAdd", "read", "sendRTP"}
             => track[t].ssrc \in DOMAIN remoteTracks
        /\ \A t \in Tracks : track[t].pc = "sendRemove" => wg >= 1)
  /\ [][\A t \in Tracks :
          /\ (track[t].pc = "sendAdd" /\ track'[t].pc = "wgAdd")
               => track[t].ssrc \in DOMAIN remoteTracks
          /\ (track[t].pc = "sendRemove" /\ track'[t].pc = "wgDone")
               => /\ \A k \in DOMAIN remoteTracks : remoteTracks[k].track # t
                  /\ wg >= 1 /\ wg' = wg]_vars

\* C20: every entry of localTracks and of remoteTracks has a transceiver, also
\* when GetTransceivers() held none for the new sender or receiver, and no
\* listing faults on an entry's transceiver.Mid().
C20_TransceiversResolved ==
  /\ \A k \in DOMAIN localTracks : localTracks[k].transceiver # NIL
  /\ \A k \in DOMAIN remoteTracks : remoteTracks[k].transceiver # NIL
  /\ panicked # "nil pointer dereference"

\* the packets of a receive pump that have left it: all it has read, but for
\* the one it is sending
Handed(t) == IF track[t].pc = "sendRTP" THEN track[t].reads - 1 ELSE track[t].reads

\* feedback packet q (<<read, index in the batch, size of the batch>>) is the
\* one the engine delivered next after p
NextFeedback(p, q) ==
  \/ q[1] = p[1] /\ q[2] = p[2] + 1 /\ q[3] = p[3]
  \/ q[1] = p[1] + 1 /\ q[2] = 1 /\ p[2] = p[3]

\* C12: the consumer of a track's packets has received exactly the packets the
\* pump has read, in the engine's order, each once; the pump holds at most one
\* packet, the one it is sending, and reads no further before a consumer has
\* received it. The same for the feedback packets of a sender.
C12_PacketsInOrder ==
  /\ \A t \in Tracks :
       /\ track[t].received = [i \in 1..Handed(t) |-> i]
       /\ track[t].pc = "sendRTP" => track[t].reads >= 1
  /\ \A s \in Senders :
       LET r == fb[s].received IN
       /\ r # <<>> => r[1][1] = 1 /\ r[1][2] = 1
       /\ \A i \in 1..(Len(r) - 1) : NextFeedback(r[i], r[i + 1])
       /\ fb[s].pc = "sendRTCP" =>
            /\ fb[s].pending >= 1
            /\ IF fb[s].pending = fb[s].batch
                 THEN r = <<>> \/ (r[Len(r)][1] = fb[s].reads - 1
                                   /\ r[Len(r)][2] = r[Len(r)][3])
                 ELSE r # <<>> /\ r[Len(r)] = <<fb[s].reads,
                                               fb[s].batch - fb[s].pending,
                                               fb[s].batch>>
       /\ fb[s].pc \in {"read", "exited"} /\ fb[s].reads > 0 =>
            r # <<>> /\ r[Len(r)] = <<fb[s].reads, fb[s].batch, fb[s].batch>>
       /\ fb[s].reads = 0 => r = <<>>

\* C12 witness: a consumer has received two packets of a track whose pump has
\* ended, and three feedback packets of a sender, from two reads
C12_Witness ==
  /\ \E t \in Tracks : track[t].pc = "exited" /\ track[t].received = <<1, 2>>
  /\ \E s \in Senders : Len(fb[s].received) = 3 /\ fb[s].reads = 2

====
